---- MODULE Spec2Model ----
(***************************************************************************)
(* Model of app.py, the Streamlit "AI Business Assistant".                 *)
(*                                                                         *)
(* Python strings are TLA+ strings (sequences of characters): Len, SubSeq, *)
(* Head, Tail and \o act on them character by character.  The module text  *)
(* is ASCII, so a non-ASCII code point of a source string is written as    *)
(* the tag <U+hex>; no operation of the program looks inside such a tag.   *)
(***************************************************************************)
EXTENDS Integers, Sequences, FiniteSets, TLC

(***************************************************************************)
(* Bounds of the model.                                                    *)
(***************************************************************************)
MaxTurns == 2        \* Send / quick-query turns in one session
MaxClock == 1        \* int(time.time()) takes the values 0..MaxClock
MaxWords == 2        \* words in a user text of the classification runs
MaxFocusWords == 2   \* words in the data focus of a generated response

(***************************************************************************)
(* Python's None for current_chart_type / parse results, and for the       *)
(* integer chart_timestamp.                                                *)
(***************************************************************************)
None == "None"
NoTimestamp == -1

(***************************************************************************)
(* str methods used by the program.                                        *)
(***************************************************************************)
\* sub in s
Contains(sub, s) ==
    \E i \in 1..(Len(s) - Len(sub) + 1) : SubSeq(s, i, i + Len(sub) - 1) = sub

\* s.startswith(p)
StartsWith(s, p) ==
    /\ Len(p) <= Len(s)
    /\ SubSeq(s, 1, Len(p)) = p

UpperCase == "ABCDEFGHIJKLMNOPQRSTUVWXYZ"
LowerCase == "abcdefghijklmnopqrstuvwxyz"

UpperSet == {SubSeq(UpperCase, i, i) : i \in 1..26}

LowerOf ==
    [c \in UpperSet |->
        LET i == CHOOSE j \in 1..26 : SubSeq(UpperCase, j, j) = c
        IN  SubSeq(LowerCase, i, i)]

LowerChar(c) == IF c \in UpperSet THEN LowerOf[c] ELSE c

\* s.lower()
RECURSIVE Lower(_)
Lower(s) ==
    IF s = "" THEN ""
    ELSE LowerChar(SubSeq(s, 1, 1)) \o Lower(SubSeq(s, 2, Len(s)))

\* s.find(sub) counted from 1: the first position where sub occurs, 0 if none
Find(sub, s) ==
    LET hits == {i \in 1..(Len(s) - Len(sub) + 1) : SubSeq(s, i, i + Len(sub) - 1) = sub}
    IN  IF hits = {} THEN 0 ELSE CHOOSE i \in hits : \A j \in hits : i <= j

\* s.split(sep), sep non-empty: the pieces between the occurrences of sep
RECURSIVE Split(_, _)
Split(s, sep) ==
    LET i == Find(sep, s)
    IN  IF i = 0 THEN <<s>>
        ELSE <<SubSeq(s, 1, i - 1)>> \o Split(SubSeq(s, i + Len(sep), Len(s)), sep)

\* s.replace(old, new), old non-empty: every occurrence, left to right
RECURSIVE Replace(_, _, _)
Replace(s, old, new) ==
    LET i == Find(old, s)
    IN  IF i = 0 THEN s
        ELSE SubSeq(s, 1, i - 1) \o new \o Replace(SubSeq(s, i + Len(old), Len(s)), old, new)

Whitespace == {" ", "\n", "\t", "\r"}

RECURSIVE LStrip(_)
LStrip(s) ==
    IF s # "" /\ SubSeq(s, 1, 1) \in Whitespace THEN LStrip(SubSeq(s, 2, Len(s))) ELSE s

RECURSIVE RStrip(_)
RStrip(s) ==
    IF s # "" /\ SubSeq(s, Len(s), Len(s)) \in Whitespace
    THEN RStrip(SubSeq(s, 1, Len(s) - 1)) ELSE s

\* s.strip()
Strip(s) == RStrip(LStrip(s))

(***************************************************************************)
(* get_fallback_response: the responses dict in insertion order, the       *)
(* for-loop over its items and the generic answer.                         *)
(***************************************************************************)
ResponseKeysSwapped ==
    << "cash flow", "performance", "expenses", "customers", "staff", "prediction",
       "sst", "e-invoice", "profit margin", "customer", "expense", "region", "chart" >>

ResponseKeys ==
    << "cash flow", "performance", "expenses", "customers", "staff", "prediction",
       "sst", "e-invoice", "chart", "profit margin", "customer", "expense", "region" >>

responses(k) ==
    CASE k = "cash flow" ->
       "<U+1F4CA> Your cash flow is healthy! Current month shows RM 42,000 net profit. Based on trends, I predict next month you'll have RM 45,000 excess cash. Recommendation: Consider investing in inventory or new equipment."
      [] k = "performance" ->
       "<U+1F680> Excellent performance this month! Revenue up 10% to RM 130,000, expenses down to RM 88,000, resulting in 23% profit increase. Your profit margin improved to 32.3% - above industry average of 22%."
      [] k = "expenses" ->
       "<U+1F4A1> Top expense reduction opportunities: 1) Staff costs at RM 35,000 (40% of expenses) - consider productivity tools. 2) Marketing spend at RM 15,000 - analyze ROI. 3) Utilities at RM 8,200 - energy audit recommended."
      [] k = "customers" ->
       "<U+1F3AF> Customer profitability analysis: ABC Trading (RM 45k, 35% margin) and XYZ Manufacturing (RM 38k, 28% margin) are your top revenue generators. They represent 64% of revenue. Recommendation: Develop 2-3 similar-sized clients to reduce concentration risk."
      [] k = "staff" ->
       "<U+1F465> Based on current workload and revenue growth, yes! Your revenue per employee calculation shows good productivity. Adding 1 sales person could increase revenue by RM 180k annually. ROI: 340%."
      [] k = "prediction" ->
       "<U+1F52E> Next month prediction: Revenue RM 132,000 (+2%), Expenses RM 87,500 (-1%), Net Profit RM 44,500 (+6%). Confidence: 87%. Key factors: Seasonal uptick + customer retention."
      [] k = "sst" ->
       "<U+1F4CB> SST Status: Next submission due 28 Feb 2025. Current quarter sales: RM 373,430. Estimated SST liability: RM 22,406. Recommendation: Set aside funds now to avoid cash flow issues."
      [] k = "e-invoice" ->
       "<U+1F4E7> E-Invoice Status: Setup pending. From August 2024, all B2B transactions require e-invoicing. I can help you prepare the integration. Estimated setup time: 2 weeks."
      [] k = "chart" ->
       "CHART_REQUEST:line|revenue_trend|Monthly revenue and profit trends"
      [] k = "profit margin" ->
       "CHART_REQUEST:line|profit_margins|Monthly profit margin trends"
      [] k = "customer" ->
       "CHART_REQUEST:pie|customers|Customer revenue distribution"
      [] k = "expense" ->
       "CHART_REQUEST:pie|expenses|Operating expense breakdown"
      [] k = "region" ->
       "CHART_REQUEST:bar|regions|Regional revenue comparison"

GenericAnswer ==
    "<U+1F916> Great question! Based on your data: Revenue trending upward (+10%), expenses controlled (RM 88k), profit margin strong at 32.3%. Your business fundamentals look solid. What specific aspect would you like me to analyze?"

\* for key, response in responses.items(): if key in question_lower: return response
RECURSIVE FallbackLoop(_, _, _)
FallbackLoop(keys, question_lower, i) ==
    IF i > Len(keys) THEN GenericAnswer
    ELSE IF Contains(keys[i], question_lower) THEN responses(keys[i])
    ELSE FallbackLoop(keys, question_lower, i + 1)

\* variants of get_fallback_response: the key 'chart' tested last; the chart
\* request as the answer to an unmatched question
get_fallback_response_swapped(question) ==
    FallbackLoop(ResponseKeysSwapped, Lower(question), 1)

get_fallback_response_default_chart(question) ==
    IF \E i \in 1..Len(ResponseKeys) : Contains(ResponseKeys[i], Lower(question))
    THEN FallbackLoop(ResponseKeys, Lower(question), 1)
    ELSE responses("chart")

\* variant of get_fallback_response: the key 'profit margin' is missing from the dict
ResponseKeysNoMargin ==
    << "cash flow", "performance", "expenses", "customers", "staff", "prediction",
       "sst", "e-invoice", "chart", "customer", "expense", "region" >>

get_fallback_response_no_margin_key(question) ==
    FallbackLoop(ResponseKeysNoMargin, Lower(question), 1)

get_fallback_response(question) ==
    FallbackLoop(ResponseKeys, Lower(question), 1)

(***************************************************************************)
(* parse_chart_request: the first line that starts with the marker, its    *)
(* '|'-separated parts and the mapping of the data focus to a chart type.  *)
(* The result is the tuple (chart_type, data_focus, description).          *)
(***************************************************************************)
Marker == "CHART_REQUEST:"

RECURSIVE FirstMarkerLine(_, _)
FirstMarkerLine(lines, i) ==
    IF i > Len(lines) THEN ""
    ELSE IF StartsWith(lines[i], Marker) THEN lines[i]
    ELSE FirstMarkerLine(lines, i + 1)

\* the if/elif chain of lines 534-543 on the lower-cased data focus
\* variants of the chain: no default branch; customer tested first
MapDataFocusNoDefault(focus_lower) ==
    IF Contains("profit_margin", focus_lower) \/ Contains("margin", focus_lower)
    THEN "profit_margin"
    ELSE IF Contains("customer", focus_lower) THEN "customer_pie"
    ELSE IF Contains("expense", focus_lower) THEN "expense_pie"
    ELSE IF Contains("region", focus_lower) THEN "regional_bar"
    ELSE focus_lower

MapDataFocusCustomerFirst(focus_lower) ==
    IF Contains("customer", focus_lower) THEN "customer_pie"
    ELSE IF Contains("profit_margin", focus_lower) \/ Contains("margin", focus_lower)
         THEN "profit_margin"
    ELSE IF Contains("expense", focus_lower) THEN "expense_pie"
    ELSE IF Contains("region", focus_lower) THEN "regional_bar"
    ELSE "revenue_trend"

\* variant of the chain: a chart type that is not a key of chart_functions
MapDataFocusUnknownKey(focus_lower) ==
    IF Contains("profit_margin", focus_lower) \/ Contains("margin", focus_lower)
    THEN "profit_margin"
    ELSE IF Contains("customer", focus_lower) THEN "customer_pie"
    ELSE IF Contains("expense", focus_lower) THEN "expense_pie"
    ELSE IF Contains("region", focus_lower) THEN "region_bar"
    ELSE "revenue_trend"

MapDataFocus(focus_lower) ==
    IF Contains("profit_margin", focus_lower) \/ Contains("margin", focus_lower)
    THEN "profit_margin"
    ELSE IF Contains("customer", focus_lower) THEN "customer_pie"
    ELSE IF Contains("expense", focus_lower) THEN "expense_pie"
    ELSE IF Contains("region", focus_lower) THEN "regional_bar"
    ELSE "revenue_trend"

\* lines 528-529: the chart type the request names (not used by the mapping)
ChartTypeReq(chart_request_line) ==
    LET parts == Split(Replace(chart_request_line, Marker, ""), "|")
    IN  IF Len(parts) > 0 THEN Strip(parts[1]) ELSE ""

ParseLine(chart_request_line) ==
    LET parts          == Split(Replace(chart_request_line, Marker, ""), "|")
        chart_type_req == ChartTypeReq(chart_request_line)
        data_focus     == IF Len(parts) > 1 THEN Strip(parts[2]) ELSE ""
        description    == IF Len(parts) > 2 THEN Strip(parts[3]) ELSE ""
    IN  <<MapDataFocus(Lower(data_focus)), data_focus, description>>

parse_chart_request(response) ==
    LET chart_request_line == FirstMarkerLine(Split(response, "\n"), 1)
    IN  IF chart_request_line = "" THEN <<None, None, None>>
        ELSE ParseLine(chart_request_line)

(***************************************************************************)
(* The chart builders.  A figure is its trace type, its x values / labels  *)
(* and its named series.  Percentages with one decimal are in tenths.      *)
(***************************************************************************)
Months == <<"Aug 2024", "Sep 2024", "Oct 2024", "Nov 2024", "Dec 2024", "Jan 2025">>

create_profit_margin_chart ==
    [trace |-> "Scatter", x |-> Months,
     series |-> << [name |-> "Profit Margin (%)", y |-> <<179, 219, 133, 288, 229, 323>>] >>]

create_customer_pie_chart ==
    [trace |-> "Pie",
     x |-> <<"ABC Trading Sdn Bhd", "XYZ Manufacturing", "DEF Industries", "GHI Solutions", "Others">>,
     series |-> << [name |-> "", y |-> <<45000, 38000, 25000, 17430, 4570>>] >>]

\* labels and values are the keys and values of business_data['expenses_breakdown'],
\* a sequence of <<key, value>> pairs here; the subscript raises KeyError without it
create_expense_pie_chart(business_data) ==
    IF "expenses_breakdown" \in DOMAIN business_data
    THEN LET expense_data == business_data.expenses_breakdown
         IN  [trace |-> "Pie",
              x |-> [i \in 1..Len(expense_data) |-> expense_data[i][1]],
              series |-> << [name |-> "",
                             y |-> [i \in 1..Len(expense_data) |-> expense_data[i][2]]] >>]
    ELSE [trace |-> "KeyError"]

create_regional_bar_chart ==
    [trace |-> "Bar", x |-> <<"KL", "Selangor", "Penang", "Johor", "Others">>,
     series |-> << [name |-> "", y |-> <<45000, 35000, 25000, 15000, 10000>>] >>]

create_revenue_trend_chart ==
    [trace |-> "Scatter", x |-> Months,
     series |-> << [name |-> "Revenue",  y |-> <<95000, 105000, 98000, 125000, 118000, 130000>>],
                   [name |-> "Expenses", y |-> <<78000, 82000, 85000, 89000, 91000, 88000>>],
                   [name |-> "Profit",   y |-> <<17000, 23000, 13000, 36000, 27000, 42000>>] >>]

ChartTypes == {"profit_margin", "customer_pie", "expense_pie", "regional_bar", "revenue_trend"}

chart_functions(chart_type, business_data) ==
    CASE chart_type = "profit_margin" -> create_profit_margin_chart
      [] chart_type = "customer_pie"  -> create_customer_pie_chart
      [] chart_type = "expense_pie"   -> create_expense_pie_chart(business_data)
      [] chart_type = "regional_bar"  -> create_regional_bar_chart
      [] chart_type = "revenue_trend" -> create_revenue_trend_chart

success_messages(chart_type) ==
    CASE chart_type = "profit_margin" ->
           "<U+2705> Profit margin chart created! Shows improvement from 17.9% to 32.3%"
      [] chart_type = "customer_pie" ->
           "<U+2705> Customer pie chart created! ABC Trading leads with 34.6% of revenue."
      [] chart_type = "expense_pie" ->
           "<U+2705> Expense breakdown chart created! Staff costs are the largest expense at 39.2%."
      [] chart_type = "regional_bar" ->
           "<U+2705> Regional bar chart created! KL leads with RM 45,000 revenue."
      [] chart_type = "revenue_trend" ->
           "<U+2705> Multi-line trend chart created! Shows revenue growth and profit improvement."

NoFigure == [trace |-> "none"]

(***************************************************************************)
(* display_chart(chart_type, chart_info) at time t: the two session fields *)
(* are assigned before the try block; the figure and the success message   *)
(* are produced inside it, and an exception there is caught and reported.  *)
(* The result holds the new session fields and what the page shows.        *)
(***************************************************************************)
\* variant of display_chart: a failed construction resets the session fields
display_chart_reset_on_failure(chart_type, chart_info, t, business_data) ==
    LET fig == IF chart_type \in ChartTypes
               THEN chart_functions(chart_type, business_data) ELSE NoFigure
        failed == chart_type \in ChartTypes /\ fig.trace = "KeyError"
    IN  [current_chart_type |-> IF failed THEN None ELSE chart_type,
         chart_timestamp    |-> IF failed THEN NoTimestamp ELSE t,
         figure  |-> IF failed THEN NoFigure ELSE fig,
         success |-> IF chart_type \in ChartTypes /\ ~failed
                     THEN success_messages(chart_type) ELSE "",
         info    |-> IF chart_type \in ChartTypes /\ ~failed THEN chart_info ELSE "",
         failed  |-> failed]

\* variants of display_chart: the chart type or the timestamp is not assigned
display_chart_fixed_type(chart_type, chart_info, t, business_data) ==
    [display_chart_reset_on_failure(chart_type, chart_info, t, business_data)
        EXCEPT !.current_chart_type = "revenue_trend", !.chart_timestamp = t]

display_chart_no_timestamp(chart_type, chart_info, t, business_data) ==
    [display_chart_reset_on_failure(chart_type, chart_info, t, business_data)
        EXCEPT !.current_chart_type = chart_type, !.chart_timestamp = NoTimestamp]

\* variant of display_chart: the success message tells when the chart was made
display_chart_dated_message(chart_type, chart_info, t, business_data) ==
    LET d == display_chart_reset_on_failure(chart_type, chart_info, t, business_data)
    IN  [d EXCEPT !.current_chart_type = chart_type, !.chart_timestamp = t,
                  !.success = IF d.success = "" \/ t = 0 THEN d.success
                              ELSE d.success \o " (updated)"]

display_chart(chart_type, chart_info, t, business_data) ==
    LET fig == IF chart_type \in ChartTypes
               THEN chart_functions(chart_type, business_data) ELSE NoFigure
        failed == chart_type \in ChartTypes /\ fig.trace = "KeyError"
    IN  [current_chart_type |-> chart_type,
         chart_timestamp    |-> t,
         figure  |-> IF failed THEN NoFigure ELSE fig,
         success |-> IF chart_type \in ChartTypes /\ ~failed
                     THEN success_messages(chart_type) ELSE "",
         info    |-> IF chart_type \in ChartTypes /\ ~failed THEN chart_info ELSE "",
         failed  |-> failed]

(***************************************************************************)
(* get_ai_response.  gemini_model is TRUE when init_gemini returned a      *)
(* model; outcome is what generate_content does in this call: it raises,   *)
(* or it returns a response with the given text.                           *)
(***************************************************************************)
RobotPrefix == "<U+1F916> "

get_ai_response(question, gemini_model, outcome) ==
    IF gemini_model
    THEN IF outcome.raised THEN get_fallback_response(question)
         ELSE RobotPrefix \o outcome.text
    ELSE get_fallback_response(question)

(***************************************************************************)
(* save_to_firebase(collection, document, data): with a database, set()    *)
(* either stores the document or raises; the exception is caught.  The     *)
(* result is the returned flag, the store afterwards and whether an        *)
(* exception left the function.                                            *)
(***************************************************************************)
\* variant of save_to_firebase: the exception of set() is not caught
save_to_firebase_uncaught(db, store, collection_name, data, set_raises) ==
    IF db
    THEN IF set_raises THEN [ret |-> FALSE, store |-> store, raised |-> TRUE]
         ELSE [ret |-> TRUE, store |-> [store EXCEPT ![collection_name] = data],
               raised |-> FALSE]
    ELSE [ret |-> FALSE, store |-> store, raised |-> FALSE]

save_to_firebase(db, store, collection_name, data, set_raises) ==
    IF db
    THEN IF set_raises THEN [ret |-> FALSE, store |-> store, raised |-> FALSE]
         ELSE [ret |-> TRUE, store |-> [store EXCEPT ![collection_name] = data],
               raised |-> FALSE]
    ELSE [ret |-> FALSE, store |-> store, raised |-> FALSE]

\* load_from_firebase: the stored document, or None without a database or document
NoDoc == [exists |-> FALSE]

load_from_firebase(db, store, collection_name) ==
    IF db THEN store[collection_name] ELSE NoDoc

(***************************************************************************)
(* The session.                                                            *)
(***************************************************************************)
VARIABLES
    gemini_model,        \* init_gemini returned a model (TRUE) or None (FALSE)
    db,                  \* init_firebase returned a client (TRUE) or None (FALSE)
    store,               \* the Firestore documents of 'demo_user', by collection
    chat_history,        \* st.session_state.chat_history
    business_data,       \* st.session_state.business_data
    current_chart_type,  \* st.session_state.current_chart_type
    chart_timestamp,     \* st.session_state.chart_timestamp
    shown,               \* the chart area of the page after the last script run
    turn,                \* the latest Send / quick-query handler run: inputs and events
    other,               \* the session state of a second browser session of the app
    pipeline             \* one question or response taken through the functions alone

svars == <<gemini_model, db, store, chat_history, business_data, current_chart_type,
           chart_timestamp, shown, turn, other>>

Greeting ==
    "<U+1F44B> Hello! I'm your AI Business Assistant. I can analyze your finances, predict trends, and provide recommendations. Try asking me anything about your business!"

Msg(role, content) == [role |-> role, content |-> content]

DefaultChatHistory == << Msg("assistant", Greeting) >>

DefaultBusinessData ==
    [revenue  |-> <<95000, 105000, 98000, 125430, 118000, 130000>>,
     expenses |-> <<78000, 82000, 85000, 89200, 91000, 88000>>,
     months   |-> Months,
     customers |-> << [name |-> "ABC Trading Sdn Bhd", revenue |-> 45000, margin |-> 35, region |-> "KL"],
                      [name |-> "XYZ Manufacturing", revenue |-> 38000, margin |-> 28, region |-> "Selangor"],
                      [name |-> "DEF Industries", revenue |-> 25000, margin |-> 42, region |-> "Penang"],
                      [name |-> "GHI Solutions", revenue |-> 17430, margin |-> 31, region |-> "Johor"] >>,
     expenses_breakdown |-> << <<"Staff Costs", 35000>>, <<"Rent", 12000>>, <<"Utilities", 8200>>,
                               <<"Marketing", 15000>>, <<"Supplies", 11000>>,
                               <<"Insurance", 5000>>, <<"Others", 3000>> >>,
     compliance |-> [sst_due |-> "2025-02-28", e_invoice_status |-> "Pending Setup",
                     last_submission |-> "2024-12-31"]]

(***************************************************************************)
(* Documents the store may hold when the session starts.  The program      *)
(* never writes 'business_data': what is there was put there from outside. *)
(***************************************************************************)
Doc(data) == [exists |-> TRUE, data |-> data]

SavedTranscript ==
    << Msg("assistant", Greeting),
       Msg("user", "customer pie"),
       Msg("assistant", responses("customer")) >>

SavedWithoutBreakdown ==
    [revenue  |-> <<90000, 99000>>,
     expenses |-> <<70000, 72000>>,
     months   |-> <<"Dec 2024", "Jan 2025">>]

SavedOtherBreakdown ==
    [revenue  |-> <<90000, 99000>>,
     expenses |-> <<70000, 72000>>,
     months   |-> <<"Dec 2024", "Jan 2025">>,
     expenses_breakdown |-> << <<"Staff Costs", 50000>>, <<"Rent", 22000>> >>]

InitialStores ==
    [chat_histories : {NoDoc, Doc([messages |-> SavedTranscript])},
     business_data  : {NoDoc, Doc(SavedWithoutBreakdown), Doc(SavedOtherBreakdown)}]

EmptyStore == [chat_histories |-> NoDoc, business_data |-> NoDoc]

\* lines 195-204
InitChatHistory(saved_chat) ==
    IF saved_chat.exists /\ "messages" \in DOMAIN saved_chat.data
    THEN saved_chat.data.messages
    ELSE DefaultChatHistory

\* lines 206-238
InitBusinessData(saved_data) ==
    IF saved_data.exists THEN saved_data.data ELSE DefaultBusinessData

NoShown == [figure |-> NoFigure, success |-> "", info |-> "", failed |-> FALSE]

NoTurn ==
    [op |-> "none", question |-> "", response |-> "", gemini |-> "none", save |-> "none",
     requested |-> None, chart_failed |-> FALSE, aborted |-> FALSE]

\* a second session before its first script run: st.session_state is empty
NotStarted ==
    [started |-> FALSE, chat_history |-> <<>>, business_data |-> <<>>,
     current_chart_type |-> None, chart_timestamp |-> NoTimestamp]

IdlePipeline ==
    [pc |-> "idle", question |-> "", gemini |-> "none", response |-> "",
     detected |-> FALSE, chart_request |-> <<None, None, None>>, display |-> NoShown]

SessionInit ==
    /\ gemini_model \in BOOLEAN
    /\ db \in BOOLEAN
    /\ store \in IF db THEN InitialStores ELSE {EmptyStore}
    /\ chat_history = InitChatHistory(load_from_firebase(db, store, "chat_histories"))
    /\ business_data = InitBusinessData(load_from_firebase(db, store, "business_data"))
    /\ current_chart_type = None
    /\ chart_timestamp = NoTimestamp
    /\ shown = NoShown
    /\ turn = NoTurn
    /\ other = NotStarted
    /\ pipeline = IdlePipeline

(***************************************************************************)
(* Inputs of the session: what the user types, what the model answers.     *)
(***************************************************************************)
SessionTexts ==
    {"", "Create a customer pie chart", "Show expense breakdown", "hello",
     "also include profit margin"}

GeminiTexts ==
    {"CHART_REQUEST:pie|customers|Customer revenue distribution",
     "Here is the regional view.\nCHART_REQUEST:bar|regions|Regional revenue comparison"}

NoCall == [raised |-> FALSE, text |-> ""]

\* what generate_content can do in one call (nothing is called without a model)
GeminiOutcomes(texts) ==
    IF gemini_model
    THEN {[raised |-> TRUE, text |-> ""]} \cup {[raised |-> FALSE, text |-> t] : t \in texts}
    ELSE {NoCall}

GeminiKind(outcome) ==
    IF ~gemini_model THEN "absent" ELSE IF outcome.raised THEN "raised" ELSE "ok"

SaveKind(set_raises) ==
    IF ~db THEN "nodb" ELSE IF set_raises THEN "failed" ELSE "ok"

\* int(time.time()) is the wall clock: any value of the range at each reading
Clock == 0..MaxClock

\* the clock is read by display_chart only: one reading when it is called
Reading(called) == IF called THEN Clock ELSE {0}

\* Python truth value of a chart type: None and "" are false
Truthy(v) == v # None /\ v # ""

Undisplayed(chart_type, timestamp) ==
    [current_chart_type |-> chart_type, chart_timestamp |-> timestamp,
     figure |-> NoFigure, success |-> "", info |-> "", failed |-> FALSE]

\* lines 749-752, run by every execution of the script on the chat page
CurrentChartSection(chart_type, timestamp, t) ==
    IF Truthy(chart_type) THEN display_chart(chart_type, "", t, business_data)
    ELSE Undisplayed(chart_type, timestamp)

Shown(d) == [figure |-> d.figure, success |-> d.success, info |-> d.info, failed |-> d.failed]

\* a turn appends two messages; the model stops taking turns at MaxTurns
TurnAllowed == Len(chat_history) + 2 <= 2 * MaxTurns + 1

(***************************************************************************)
(* The Send button (lines 770-791) followed by the rerun it asks for.      *)
(***************************************************************************)
\* variant of the Send handler: the transcript is saved before the response is appended
SendTurn_save_before_response(user_input, outcome, set_raises) ==
    \E response \in {get_ai_response(user_input, gemini_model, outcome)} :
    \E detected \in {Contains(Marker, response)} :
    \E parsed \in {IF detected THEN parse_chart_request(response) ELSE <<None, None, None>>} :
    \E displays \in {detected /\ Truthy(parsed[1])} :
    \E h1 \in {chat_history \o <<Msg("user", user_input)>>} :
    \E sv \in {save_to_firebase(db, store, "chat_histories", Doc([messages |-> h1]), set_raises)} :
    \E t1 \in Reading(displays) :
    \E d1 \in {IF displays
               THEN display_chart(parsed[1], "Generated from: " \o parsed[2], t1, business_data)
               ELSE Undisplayed(current_chart_type, chart_timestamp)} :
    \E t2 \in Reading(~sv.raised /\ Truthy(d1.current_chart_type)) :
    \E d2 \in {IF sv.raised THEN d1
               ELSE CurrentChartSection(d1.current_chart_type, d1.chart_timestamp, t2)} :
        /\ chat_history' = h1 \o <<Msg("assistant", response)>>
        /\ store' = sv.store
        /\ current_chart_type' = d2.current_chart_type
        /\ chart_timestamp' = d2.chart_timestamp
        /\ shown' = Shown(d2)
        /\ turn' = [op |-> "send", question |-> user_input, response |-> response,
                    gemini |-> GeminiKind(outcome), save |-> SaveKind(set_raises),
                    requested |-> IF displays THEN parsed[1] ELSE None,
                    chart_failed |-> displays /\ d1.failed,
                    aborted |-> sv.raised]

SendTurn(user_input, outcome, set_raises) ==
    \E response \in {get_ai_response(user_input, gemini_model, outcome)} :
    \E detected \in {Contains(Marker, response)} :
    \E parsed \in {IF detected THEN parse_chart_request(response) ELSE <<None, None, None>>} :
    \E displays \in {detected /\ Truthy(parsed[1])} :
    \E h2 \in {chat_history \o <<Msg("user", user_input), Msg("assistant", response)>>} :
    \E sv \in {save_to_firebase(db, store, "chat_histories", Doc([messages |-> h2]), set_raises)} :
    \E t1 \in Reading(displays) :
    \E d1 \in {IF displays
               THEN display_chart(parsed[1], "Generated from: " \o parsed[2], t1, business_data)
               ELSE Undisplayed(current_chart_type, chart_timestamp)} :
    \E t2 \in Reading(~sv.raised /\ Truthy(d1.current_chart_type)) :
    \E d2 \in {IF sv.raised THEN d1
               ELSE CurrentChartSection(d1.current_chart_type, d1.chart_timestamp, t2)} :
        /\ chat_history' = h2
        /\ store' = sv.store
        /\ current_chart_type' = d2.current_chart_type
        /\ chart_timestamp' = d2.chart_timestamp
        /\ shown' = Shown(d2)
        /\ turn' = [op |-> "send", question |-> user_input, response |-> response,
                    gemini |-> GeminiKind(outcome), save |-> SaveKind(set_raises),
                    requested |-> IF displays THEN parsed[1] ELSE None,
                    chart_failed |-> displays /\ d1.failed,
                    aborted |-> sv.raised]

\* variant of the Send button: the input is not tested for being empty
Send_without_input_test ==
    /\ TurnAllowed
    /\ UNCHANGED <<other, pipeline, gemini_model, db, business_data>>
    /\ \E user_input \in SessionTexts,
          outcome \in GeminiOutcomes(GeminiTexts),
          set_raises \in IF db THEN BOOLEAN ELSE {FALSE} :
            SendTurn(user_input, outcome, set_raises)

Send ==
    \E user_input \in SessionTexts :
        /\ UNCHANGED <<other, pipeline, gemini_model, db, business_data>>
        /\ IF user_input = ""
           THEN \E t \in Reading(Truthy(current_chart_type)) :
                \E d \in {CurrentChartSection(current_chart_type, chart_timestamp, t)} :
                    /\ current_chart_type' = d.current_chart_type
                    /\ chart_timestamp' = d.chart_timestamp
                    /\ shown' = Shown(d)
                    /\ UNCHANGED <<chat_history, store, turn>>
           ELSE /\ TurnAllowed
                /\ \E outcome \in GeminiOutcomes(GeminiTexts),
                      set_raises \in IF db THEN BOOLEAN ELSE {FALSE} :
                        SendTurn(user_input, outcome, set_raises)

(***************************************************************************)
(* The quick-query buttons (lines 705-721): no chart is parsed or shown by *)
(* the handler; the rerun shows the current chart again.                   *)
(***************************************************************************)
QuickQuery(user_question, outcome, set_raises) ==
    \E response \in {get_ai_response(user_question, gemini_model, outcome)} :
    \E h2 \in {chat_history \o <<Msg("user", user_question), Msg("assistant", response)>>} :
    \E sv \in {save_to_firebase(db, store, "chat_histories", Doc([messages |-> h2]), set_raises)} :
    \E t \in Reading(~sv.raised /\ Truthy(current_chart_type)) :
    \E d \in {IF sv.raised THEN Undisplayed(current_chart_type, chart_timestamp)
              ELSE CurrentChartSection(current_chart_type, chart_timestamp, t)} :
        /\ chat_history' = h2
        /\ store' = sv.store
        /\ current_chart_type' = d.current_chart_type
        /\ chart_timestamp' = d.chart_timestamp
        /\ shown' = Shown(d)
        /\ turn' = [op |-> "quick", question |-> user_question, response |-> response,
                    gemini |-> GeminiKind(outcome), save |-> SaveKind(set_raises),
                    requested |-> None, chart_failed |-> FALSE, aborted |-> sv.raised]
        /\ UNCHANGED <<other, pipeline, gemini_model, db, business_data>>

CashFlowButton ==
    /\ TurnAllowed
    /\ \E outcome \in GeminiOutcomes(GeminiTexts),
          set_raises \in IF db THEN BOOLEAN ELSE {FALSE} :
            QuickQuery("How's my cash flow?", outcome, set_raises)

PerformanceButton ==
    /\ TurnAllowed
    /\ \E outcome \in GeminiOutcomes(GeminiTexts),
          set_raises \in IF db THEN BOOLEAN ELSE {FALSE} :
            QuickQuery("How is my business performing?", outcome, set_raises)

(***************************************************************************)
(* The Create Chart button (lines 723-740); the script then runs on to     *)
(* the current-chart section.                                              *)
(***************************************************************************)
\* for msg in reversed(chat_history): the content of the last assistant message
\* that contains the marker, None when there is none
RECURSIVE LatestChartRequest(_, _)
LatestChartRequest(history, i) ==
    IF i = 0 THEN None
    ELSE IF history[i].role = "assistant" /\ Contains(Marker, history[i].content)
         THEN history[i].content
    ELSE LatestChartRequest(history, i - 1)

CreateChart ==
    \E latest_chart_request \in {LatestChartRequest(chat_history, Len(chat_history))} :
    \E parsed \in {IF Truthy(latest_chart_request)
                   THEN parse_chart_request(latest_chart_request)
                   ELSE <<"revenue_trend", None, None>>} :
    \E t1 \in Reading(Truthy(parsed[1])) :
    \E d1 \in {IF Truthy(latest_chart_request)
               THEN IF Truthy(parsed[1])
                    THEN display_chart(parsed[1], "Generated from: " \o parsed[2], t1,
                                       business_data)
                    ELSE Undisplayed(current_chart_type, chart_timestamp)
               ELSE display_chart("revenue_trend",
                                  "Default chart - ask for specific charts in chat!", t1,
                                  business_data)} :
    \E t2 \in Reading(Truthy(d1.current_chart_type)) :
    \E d2 \in {CurrentChartSection(d1.current_chart_type, d1.chart_timestamp, t2)} :
        /\ current_chart_type' = d2.current_chart_type
        /\ chart_timestamp' = d2.chart_timestamp
        /\ shown' = Shown(d2)
        /\ UNCHANGED <<other, pipeline, gemini_model, db, store, chat_history, business_data, turn>>

(***************************************************************************)
(* The Clear Charts button (lines 742-747) and its rerun.                  *)
(***************************************************************************)
\* variant of the Clear Charts handler: the conversation is reset with the charts
ClearCharts_and_conversation ==
    /\ current_chart_type' = None
    /\ chart_timestamp' = NoTimestamp
    /\ shown' = NoShown
    /\ chat_history' = DefaultChatHistory
    /\ UNCHANGED <<other, pipeline, gemini_model, db, store, business_data, turn>>

ClearCharts ==
    /\ current_chart_type' = None
    /\ chart_timestamp' = NoTimestamp
    /\ shown' = NoShown
    /\ UNCHANGED <<other, pipeline, gemini_model, db, store, chat_history, business_data, turn>>

(***************************************************************************)
(* A run of the script with no button pressed.                             *)
(***************************************************************************)
Rerun ==
    \E t \in Reading(Truthy(current_chart_type)) :
    \E d \in {CurrentChartSection(current_chart_type, chart_timestamp, t)} :
        /\ current_chart_type' = d.current_chart_type
        /\ chart_timestamp' = d.chart_timestamp
        /\ shown' = Shown(d)
        /\ UNCHANGED <<other, pipeline, gemini_model, db, store, chat_history, business_data, turn>>

vars == <<svars, pipeline>>

Init == SessionInit

Next ==
    \/ Send
    \/ CashFlowButton
    \/ PerformanceButton
    \/ CreateChart
    \/ ClearCharts
    \/ Rerun

Spec == Init /\ [][Next]_vars

(***************************************************************************)
(* A second session of the same deployment.  It runs the same script on    *)
(* its own st.session_state; init_firebase and init_gemini are cached      *)
(* resources of the process, and every session reads and writes the        *)
(* documents of 'demo_user'.                                               *)
(***************************************************************************)
\* the first script run of the session (lines 195-245)
OtherOpen ==
    /\ ~other.started
    /\ other' = [started |-> TRUE,
                 chat_history |-> InitChatHistory(load_from_firebase(db, store, "chat_histories")),
                 business_data |-> InitBusinessData(load_from_firebase(db, store, "business_data")),
                 current_chart_type |-> None,
                 chart_timestamp |-> NoTimestamp]
    /\ UNCHANGED <<pipeline, gemini_model, db, store, chat_history, business_data,
                   current_chart_type, chart_timestamp, shown, turn>>

\* the two sessions together take turns while their transcripts are short
JointTurnAllowed == Len(chat_history) + Len(other.chat_history) + 2 <= 2 * MaxTurns + 4

\* the Send button in the second session (lines 770-791) and its rerun
OtherSend ==
    /\ other.started
    /\ JointTurnAllowed
    /\ \E user_input \in SessionTexts \ {""},
          outcome \in GeminiOutcomes(GeminiTexts),
          set_raises \in IF db THEN BOOLEAN ELSE {FALSE} :
       \E response \in {get_ai_response(user_input, gemini_model, outcome)} :
       \E detected \in {Contains(Marker, response)} :
       \E parsed \in {IF detected THEN parse_chart_request(response) ELSE <<None, None, None>>} :
       \E displays \in {detected /\ Truthy(parsed[1])} :
       \E h2 \in {other.chat_history \o
                      <<Msg("user", user_input), Msg("assistant", response)>>} :
       \E sv \in {save_to_firebase(db, store, "chat_histories", Doc([messages |-> h2]),
                                  set_raises)} :
       \E t1 \in Reading(displays) :
       \E d1 \in {IF displays
                  THEN display_chart(parsed[1], "Generated from: " \o parsed[2], t1,
                                     other.business_data)
                  ELSE Undisplayed(other.current_chart_type, other.chart_timestamp)} :
       \E t2 \in Reading(Truthy(d1.current_chart_type)) :
       \E d2 \in {IF Truthy(d1.current_chart_type)
                  THEN display_chart(d1.current_chart_type, "", t2, other.business_data)
                  ELSE d1} :
          /\ other' = [other EXCEPT !.chat_history = h2,
                                    !.current_chart_type = d2.current_chart_type,
                                    !.chart_timestamp = d2.chart_timestamp]
          /\ store' = sv.store
    /\ UNCHANGED <<pipeline, gemini_model, db, chat_history, business_data,
                   current_chart_type, chart_timestamp, shown, turn>>

\* the Clear Charts button in the second session (lines 742-747)
OtherClearCharts ==
    /\ other.started
    /\ other' = [other EXCEPT !.current_chart_type = None, !.chart_timestamp = NoTimestamp]
    /\ UNCHANGED <<pipeline, gemini_model, db, store, chat_history, business_data,
                   current_chart_type, chart_timestamp, shown, turn>>

TwoSessionNext ==
    \/ JointTurnAllowed /\ Send
    \/ ClearCharts
    \/ OtherOpen
    \/ OtherSend
    \/ OtherClearCharts

TwoSessionSpec == Init /\ [][TwoSessionNext]_vars

(***************************************************************************)
(* The functions alone: a question is answered by get_ai_response, the     *)
(* response is tested for the marker and parsed by parse_chart_request,    *)
(* and the parsed chart type is shown by display_chart, as lines 775-782   *)
(* chain them.  The inputs are drawn from bounded sets of texts.           *)
(***************************************************************************)
Words == {"customer", "Customers", "pie", "chart", "expense", "profit", "margin",
          "region", "bar", "hello"}

\* the examples of the input placeholder (line 768) and the quick queries
ExampleTexts ==
    {"Create a customer pie chart", "Show me profit margin trends",
     "How's my cash flow?", "How is my business performing?"}

RECURSIVE Phrases(_, _)
Phrases(words, n) ==
    IF n = 0 THEN {""}
    ELSE LET shorter == Phrases(words, n - 1)
         IN  shorter \cup words \cup {p \o " " \o w : p \in shorter \ {""}, w \in words}

UserTexts == Phrases(Words, MaxWords) \cup ExampleTexts

ChartTypeRequests == {"pie", "bar", "line", "area"}

FocusWords == {"customers", "expenses", "regions", "profit_margins", "revenue_trend",
               "Margin", "sales"}

Preambles == {"", "Here is your chart.\n"}

\* responses in the format the prompt asks the model for (line 416), and some that are not
ChartResponses ==
    {pre \o Marker \o ct \o "|" \o focus \o "|Requested chart" :
        pre \in Preambles, ct \in ChartTypeRequests, focus \in Phrases(FocusWords, MaxFocusWords)}

RawResponses ==
    ChartResponses \cup
    {"", GenericAnswer, "CHART_REQUEST:", "CHART_REQUEST:pie", "|||\n\n",
     "As requested: CHART_REQUEST:pie|customers|Customer revenue distribution"}

BusinessDataInputs == {DefaultBusinessData, SavedWithoutBreakdown, SavedOtherBreakdown}

ClassifyInit ==
    /\ gemini_model \in BOOLEAN
    /\ db = FALSE
    /\ store = EmptyStore
    /\ chat_history = DefaultChatHistory
    /\ business_data \in BusinessDataInputs
    /\ current_chart_type = None
    /\ chart_timestamp = NoTimestamp
    /\ shown = NoShown
    /\ turn = NoTurn
    /\ other = NotStarted
    /\ \/ \E q \in UserTexts :
            pipeline = [IdlePipeline EXCEPT !.pc = "question", !.question = q]
       \/ /\ ~gemini_model
          /\ \E r \in RawResponses :
                pipeline = [IdlePipeline EXCEPT !.pc = "response", !.response = r]

\* line 775
Respond ==
    /\ pipeline.pc = "question"
    /\ \E outcome \in GeminiOutcomes(GeminiTexts) :
          pipeline' = [pipeline EXCEPT
                          !.pc = "response",
                          !.gemini = GeminiKind(outcome),
                          !.response = get_ai_response(pipeline.question, gemini_model, outcome)]
    /\ UNCHANGED svars

\* lines 778-779
Parse ==
    /\ pipeline.pc = "response"
    /\ pipeline' = [pipeline EXCEPT
                       !.pc = "parsed",
                       !.detected = Contains(Marker, pipeline.response),
                       !.chart_request = parse_chart_request(pipeline.response)]
    /\ UNCHANGED svars

\* lines 780-782
Display ==
    /\ pipeline.pc = "parsed"
    /\ Truthy(pipeline.chart_request[1])
    /\ \E t \in Clock :
          pipeline' = [pipeline EXCEPT
                          !.pc = "displayed",
                          !.display = display_chart(pipeline.chart_request[1],
                                                    "Generated from: " \o pipeline.chart_request[2],
                                                    t, business_data)]
    /\ UNCHANGED svars

ClassifyNext ==
    \/ Respond
    \/ Parse
    \/ Display

ClassifySpec == ClassifyInit /\ [][ClassifyNext]_vars

(***************************************************************************)
(* Properties.                                                             *)
(***************************************************************************)
\* the answer came from get_fallback_response: no model, or the call raised
OnFallback(kind) == kind \in {"absent", "raised"}

\* the question contains none of the keys of the responses dict
NoKeyword(question) ==
    \A i \in 1..Len(ResponseKeys) : ~Contains(ResponseKeys[i], Lower(question))

\* C1: every user text that contains "customer" and "pie" is classified to the
\* customer pie chart (answered without the model, as the sources of the claim are).
C1_CustomerPieClassified ==
    ( /\ pipeline.pc = "parsed"
      /\ OnFallback(pipeline.gemini)
      /\ Contains("customer", pipeline.question)
      /\ Contains("pie", pipeline.question) )
    => pipeline.chart_request[1] = "customer_pie"

FirstKeyResponse(question) ==
    LET matching == {i \in 1..Len(ResponseKeys) : Contains(ResponseKeys[i], Lower(question))}
    IN  IF matching = {} THEN GenericAnswer
        ELSE responses(ResponseKeys[CHOOSE i \in matching : \A j \in matching : i <= j])

\* C3: when the model is absent or its call raises, the response of the turn is the
\* response of the first fallback key occurring in the lower-cased question, or the
\* generic answer; the handler is not left by an exception and the turn is recorded.
C3_FallbackOnFailure ==
    (turn.op # "none" /\ OnFallback(turn.gemini))
    => /\ turn.response = FirstKeyResponse(turn.question)
       /\ ~turn.aborted
       /\ Len(chat_history) >= 2
       /\ chat_history[Len(chat_history) - 1] = Msg("user", turn.question)
       /\ chat_history[Len(chat_history)] = Msg("assistant", turn.response)

C3_Witness ==
    /\ turn.op = "send"
    /\ turn.gemini = "raised"
    /\ turn.question = "Create a customer pie chart"
    /\ turn.response = responses("chart")

\* a step of a Send or quick-query turn: only these append to chat_history
TurnStep == chat_history' # chat_history

\* C4: whatever save_to_firebase does (stores, fails with an exception, has no
\* database), a Send or quick-query turn is not aborted and ends with the user
\* message and the assistant response appended and with the chart state that the
\* request of the response alone determines; the store changes only on success.
C4_SaveNeverAbortsTurn ==
    [][TurnStep =>
        /\ ~turn'.aborted
        /\ turn'.save \in {"ok", "failed", "nodb"}
        /\ chat_history' = chat_history \o
               <<Msg("user", turn'.question), Msg("assistant", turn'.response)>>
        /\ current_chart_type' =
               IF turn'.requested # None THEN turn'.requested ELSE current_chart_type
        /\ (current_chart_type' = None) <=> (chart_timestamp' = NoTimestamp)
        /\ (turn'.save = "ok") =>
               store'.chat_histories = Doc([messages |-> chat_history'])
        /\ (turn'.save # "ok") => store' = store
    ]_vars

C4_Witness ==
    /\ turn.op = "send"
    /\ turn.save = "failed"
    /\ turn.requested = "regional_bar"
    /\ current_chart_type = "regional_bar"
    /\ chat_history[Len(chat_history)] = Msg("assistant", turn.response)

\* the two chart states of a session
NoActiveChart == current_chart_type = None /\ chart_timestamp = NoTimestamp

ChartActive == current_chart_type \in ChartTypes /\ chart_timestamp \in Clock

\* C5: the chart state is always no-active-chart or chart-active(chart); it is
\* no-active-chart at the start; a request that produces a chart makes its chart the
\* current one whatever was current before; Clear Charts leads to no-active-chart.
C5_TwoChartStates ==
    /\ NoActiveChart
    /\ [](NoActiveChart \/ ChartActive)
    /\ [][(TurnStep /\ turn'.requested # None)
            => (ChartActive' /\ current_chart_type' = turn'.requested)]_vars
    /\ [][ClearCharts => NoActiveChart']_vars

C5_Witness ==
    /\ turn.op = "send"
    /\ turn.requested = "expense_pie"
    /\ current_chart_type = "expense_pie"
    /\ chart_timestamp \in Clock
    /\ Len(chat_history) = 5

\* C6 as stated: when chart construction fails in the display_chart of a turn, the
\* turn leaves current_chart_type, chart_timestamp and chat_history as they were.
C6_AllOrNothing ==
    [][(turn' # turn /\ turn'.chart_failed) =>
        /\ current_chart_type' = current_chart_type
        /\ chart_timestamp' = chart_timestamp
        /\ chat_history' = chat_history
    ]_vars

\* C6 amended: a submission always completes; when chart construction raises inside
\* display_chart the exception is caught and reported and nothing is rolled back:
\* current_chart_type and chart_timestamp are set for the requested chart and the
\* user message and the assistant response are appended.
C6_FailureKeepsChanges ==
    [][(TurnStep /\ turn'.op = "send") =>
        /\ ~turn'.aborted
        /\ Len(chat_history') = Len(chat_history) + 2
        /\ turn'.chart_failed =>
              /\ current_chart_type' = turn'.requested
              /\ current_chart_type' \in ChartTypes
              /\ chart_timestamp' \in Clock
              /\ shown'.failed
              /\ shown'.figure = NoFigure
    ]_vars

C6_Witness ==
    /\ turn.op = "send"
    /\ turn.chart_failed
    /\ current_chart_type = "expense_pie"
    /\ chart_timestamp \in Clock
    /\ "expenses_breakdown" \notin DOMAIN business_data

\* the values get_fallback_response can return
FallbackResponses == {responses(ResponseKeys[i]) : i \in 1..Len(ResponseKeys)} \cup {GenericAnswer}

\* the response has a line that starts with the marker
HasMarkerLine(response) ==
    \E i \in 1..Len(Split(response, "\n")) : StartsWith(Split(response, "\n")[i], Marker)

\* C7: classification never fails: for every user text, the empty one included, and
\* every response string, get_ai_response returns a response (a fallback response
\* when the model is absent or raises, the generic answer when no key occurs) and
\* parse_chart_request returns None, None, None for a response without a request
\* line and otherwise one of the five chart types, revenue_trend when no cue occurs.
C7_ClassificationTotal ==
    /\ (pipeline.pc \in {"response", "parsed", "displayed"} /\ OnFallback(pipeline.gemini))
       => /\ pipeline.response \in FallbackResponses
          /\ NoKeyword(pipeline.question) => pipeline.response = GenericAnswer
    /\ (pipeline.pc \in {"response", "parsed", "displayed"} /\ pipeline.gemini = "ok")
       => /\ Len(pipeline.response) >= Len(RobotPrefix)
          /\ StartsWith(pipeline.response, RobotPrefix)
    /\ (pipeline.pc \in {"parsed", "displayed"})
       => /\ Len(pipeline.chart_request) = 3
          /\ pipeline.chart_request[1] \in ChartTypes \cup {None}
          /\ (pipeline.chart_request[1] = None) <=> ~HasMarkerLine(pipeline.response)
          /\ (pipeline.chart_request[1] = None) => pipeline.chart_request = <<None, None, None>>
          /\ ( /\ pipeline.chart_request[1] # None
               /\ \A cue \in {"margin", "customer", "expense", "region"} :
                     ~Contains(cue, Lower(pipeline.chart_request[2])) )
             => pipeline.chart_request = <<"revenue_trend", pipeline.chart_request[2],
                                           pipeline.chart_request[3]>>

C7_Witness ==
    /\ pipeline.pc = "parsed"
    /\ pipeline.response = "CHART_REQUEST:"
    /\ pipeline.chart_request = <<"revenue_trend", "", "">>

\* the responses a turn of the session can get, and for each of them the chart type
\* that parse_chart_request reads from it
SessionResponses == FallbackResponses \cup {RobotPrefix \o t : t \in GeminiTexts}

RequestedBy == [response \in SessionResponses |-> parse_chart_request(response)[1]]

Focus == Lower(pipeline.chart_request[2])

\* C9 as stated: a request whose data focus contains "customer" resolves to the
\* customers data source, also when it contains "margin", "expense" or "region".
C9_CustomerRankedFirst ==
    ( /\ pipeline.pc = "parsed"
      /\ pipeline.chart_request[1] # None
      /\ Contains("customer", Focus) )
    => pipeline.chart_request[1] = "customer_pie"

\* C9 amended: data-source resolution in parse_chart_request is first-match-wins on
\* the lower-cased data focus with "margin" ranked first: margin gives profit_margin,
\* then customer gives customer_pie (also with "expense" or "region" present), then
\* expense gives expense_pie, then region gives regional_bar, then revenue_trend.
C9_MarginRankedFirst ==
    (pipeline.pc = "parsed" /\ pipeline.chart_request[1] # None)
    => /\ Contains("margin", Focus) => pipeline.chart_request[1] = "profit_margin"
       /\ (Contains("customer", Focus) /\ ~Contains("margin", Focus))
          => pipeline.chart_request[1] = "customer_pie"
       /\ ( /\ Contains("expense", Focus)
            /\ ~Contains("margin", Focus) /\ ~Contains("customer", Focus) )
          => pipeline.chart_request[1] = "expense_pie"
       /\ ( /\ Contains("region", Focus)
            /\ ~Contains("margin", Focus) /\ ~Contains("customer", Focus)
            /\ ~Contains("expense", Focus) )
          => pipeline.chart_request[1] = "regional_bar"
       /\ ( /\ ~Contains("region", Focus)
            /\ ~Contains("margin", Focus) /\ ~Contains("customer", Focus)
            /\ ~Contains("expense", Focus) )
          => pipeline.chart_request[1] = "revenue_trend"

C9_Witness ==
    /\ pipeline.pc = "parsed"
    /\ pipeline.chart_request[2] = "expenses customers"
    /\ pipeline.chart_request[1] = "customer_pie"

\* the trace type of a figure of the chart type a request names
TraceOfRequest(chart_type_req) ==
    CASE chart_type_req = "pie"  -> "Pie"
      [] chart_type_req = "bar"  -> "Bar"
      [] chart_type_req = "line" -> "Scatter"
      [] chart_type_req = "area" -> "Area"
      [] OTHER -> "none"

\* C10: the chart that is produced has the chart type the request names (pie, bar,
\* line or area), whatever the data source.
C10_ChartTypeFollowsRequest ==
    ( /\ pipeline.pc = "displayed"
      /\ ~pipeline.display.failed
      /\ ChartTypeReq(FirstMarkerLine(Split(pipeline.response, "\n"), 1)) \in ChartTypeRequests )
    => pipeline.display.figure.trace =
          TraceOfRequest(ChartTypeReq(FirstMarkerLine(Split(pipeline.response, "\n"), 1)))

\* the request of the modification scenario
ModificationRequest == "also include profit margin"

\* the primary metrics of a figure, and what it plots against a second y-scale
\* (no chart builder makes a second scale)
PrimaryMetrics(fig) == IF "series" \in DOMAIN fig THEN fig.series ELSE <<>>

SecondaryAxis(fig) == IF "secondary_axis" \in DOMAIN fig THEN fig.secondary_axis ELSE <<>>

StartHistory(documents) == InitChatHistory(load_from_firebase(db, documents, "chat_histories"))

\* C13: no state is shared across sessions: a step of one session never changes the
\* current chart or the chat history the other session holds, and a step of the
\* first session never changes the chat history the second session starts with.
C13_NoCrossSessionSharing ==
    [][ /\ (other' # other)
           => UNCHANGED <<chat_history, current_chart_type, chart_timestamp>>
        /\ (<<chat_history, current_chart_type, chart_timestamp>>' #
              <<chat_history, current_chart_type, chart_timestamp>>)
           => other' = other
        /\ (other' = other /\ ~other.started)
           => StartHistory(store') = StartHistory(store)
    ]_vars

\* C14: the chart that is produced does not depend on the persistence store: for
\* every chart type the page shows the figure (labels and values) that is produced
\* when the store holds no document, whatever the store held when the session began.
C14_ChartIndependentOfStore ==
    (current_chart_type \in ChartTypes)
    => shown.figure = chart_functions(current_chart_type, DefaultBusinessData)

\* C15: in the Send handler, whenever the response contains the marker a chart is
\* displayed and current_chart_type becomes non-None: the marker test and
\* parse_chart_request agree, also on responses of the model, which get_ai_response
\* prefixes with the robot emoji and a space.
C15_MarkerTestAgreesWithParse ==
    [][( /\ TurnStep
         /\ turn'.op = "send"
         /\ Contains(Marker, turn'.response) )
       => /\ parse_chart_request(turn'.response)[1] # None
          /\ turn'.requested # None
          /\ current_chart_type' = turn'.requested
          /\ current_chart_type' # None
    ]_vars

\* the chart of the most recent assistant message that contains the marker, as
\* parse_chart_request reads it; revenue_trend when no assistant message contains it
LatestRequestedChart(history) ==
    LET latest_chart_request == LatestChartRequest(history, Len(history))
    IN  IF latest_chart_request = None THEN "revenue_trend"
        ELSE parse_chart_request(latest_chart_request)[1]

\* C16: pressing Create Chart always leaves the session chart-active, and the current
\* chart is the one parsed from the most recent assistant message of chat_history
\* that contains the marker, or revenue_trend when no assistant message contains it.
C16_CreateChartAlwaysActive ==
    [][CreateChart =>
        /\ ChartActive'
        /\ current_chart_type' = LatestRequestedChart(chat_history)
    ]_vars

\* the stored transcript document of 'demo_user'
StoredMessages(documents) == documents.chat_histories.data.messages

\* C17: after every Send or quick-query turn whose save succeeds, the transcript
\* stored under 'demo_user' is the complete chat_history of the session, ending with
\* the user message of the turn followed by its assistant response; no other
\* document is written.
C17_StoredTranscriptComplete ==
    [][(TurnStep /\ turn'.save = "ok") =>
        /\ store'.chat_histories.exists
        /\ DOMAIN store'.chat_histories.data = {"messages"}
        /\ StoredMessages(store') = chat_history'
        /\ Len(StoredMessages(store')) = Len(chat_history) + 2
        /\ StoredMessages(store')[Len(chat_history) + 1] = Msg("user", turn'.question)
        /\ StoredMessages(store')[Len(chat_history) + 2] = Msg("assistant", turn'.response)
        /\ store'.business_data = store.business_data
    ]_vars

C17_Witness ==
    /\ turn.op = "quick"
    /\ turn.save = "ok"
    /\ turn.question = "How's my cash flow?"
    /\ Len(chat_history) = 5
    /\ store.chat_histories.exists
    /\ StoredMessages(store) = chat_history
    /\ chat_history[5] = Msg("assistant", responses("cash flow"))

\* C18: Clear Charts changes only the chart state: it sets current_chart_type and
\* chart_timestamp to None (the page then shows no chart) and leaves chat_history
\* and business_data unchanged and writes nothing to persistence; and a session
\* loses its current chart only by such a step.
C18_ClearChartsFrame ==
    [][ /\ ClearCharts
           => /\ NoActiveChart'
              /\ shown' = NoShown
              /\ UNCHANGED <<chat_history, business_data, store>>
        /\ (ChartActive /\ current_chart_type' = None)
           => /\ chart_timestamp' = NoTimestamp
              /\ UNCHANGED <<chat_history, business_data, store, turn>>
    ]_vars

\* the chart requested by the latest turn was displayed and has been cleared since;
\* the transcript of the two turns is still held and stored
C18_Witness ==
    /\ turn.op = "send"
    /\ turn.requested = "expense_pie"
    /\ turn.save = "ok"
    /\ NoActiveChart
    /\ shown = NoShown
    /\ Len(chat_history) = 5
    /\ store.chat_histories.exists
    /\ StoredMessages(store) = chat_history

\* C19: in every reachable state current_chart_type is None or one of the five chart
\* types that display_chart can render, and the page of a session with a current
\* chart shows that chart's success message or a construction failure, never the
\* report of an unknown chart type.
C19_ChartTypeRenderable ==
    /\ current_chart_type \in {None} \cup ChartTypes
    /\ current_chart_type # None
       => \/ shown.failed
          \/ /\ shown.success = success_messages(current_chart_type)
             /\ shown.figure = chart_functions(current_chart_type, business_data)

\* the default chart of Create Chart, pressed after a quick query in a session that
\* began with the greeting alone
C19_Witness ==
    /\ turn.op = "quick"
    /\ Len(chat_history) = 3
    /\ current_chart_type = "revenue_trend"
    /\ shown.success = success_messages("revenue_trend")
    /\ shown.figure = create_revenue_trend_chart

\* the role of the i-th message of a transcript that begins with the assistant and
\* alternates
RoleAt(i) == IF i % 2 = 1 THEN "assistant" ELSE "user"

\* C20: a session that starts from the greeting (alone, or followed by the stored
\* turns) has at every moment a non-empty chat_history that begins with an assistant
\* message and strictly alternates assistant and user roles; each Send or quick-query
\* turn appends exactly one user message, which is not empty, followed by exactly one
\* assistant message; nothing is appended for an empty input: every step that
\* changes chat_history is a turn with a non-empty user message.
C20_HistoryAlternates ==
    /\ [](/\ Len(chat_history) >= 1
          /\ chat_history[1] = Msg("assistant", Greeting)
          /\ \A i \in 1..Len(chat_history) : chat_history[i].role = RoleAt(i))
    /\ [][TurnStep =>
            /\ turn'.op \in {"send", "quick"}
            /\ turn'.question # ""
            /\ Len(chat_history') = Len(chat_history) + 2
            /\ SubSeq(chat_history', 1, Len(chat_history)) = chat_history
            /\ chat_history'[Len(chat_history) + 1] = Msg("user", turn'.question)
            /\ chat_history'[Len(chat_history) + 2].role = "assistant"
            /\ chat_history'[Len(chat_history) + 2] = Msg("assistant", turn'.response)
       ]_vars

\* a Send turn and a quick-query turn after the greeting alone
C20_Witness ==
    /\ Len(chat_history) = 5
    /\ chat_history[1] = Msg("assistant", Greeting)
    /\ chat_history[2] = Msg("user", "hello")
    /\ chat_history[3].role = "assistant"
    /\ chat_history[4] = Msg("user", "How is my business performing?")
    /\ chat_history[5] = Msg("assistant", GenericAnswer)
    /\ turn.op = "quick"
====
